---- MODULE Spec2Model ----
(***************************************************************************)
(* Model of src/clean_image.py: the audit of a tub (catalog segments,      *)
(* manifest.json, image files) by clean_tub_data.                          *)
(*                                                                         *)
(* Steering angles are held in hundredths (0.05 is 5, 0.1 is 10), so the   *)
(* mean of a neighbourhood is compared exactly: sum/len > 0.1 becomes      *)
(* sum > 10 * len.  Python's binary floating point is not modelled.        *)
(* An optional value (dict.get(...) returning None) is the empty tuple,    *)
(* a present value v is <<v>>.                                             *)
(***************************************************************************)
EXTENDS Integers, Sequences, FiniteSets, TLC

\* ------------------------------------------------------------------ bounds
MaxRecords == 2       \* records of a store in Init
MaxSeqRecords == 7    \* records of a store in InitSeq
MaxRunRecords == 5    \* records of a store in InitRuns
MaxAudits == 2        \* audits of one store in a behaviour of Spec

\* ------------------------------------------------------- program constants
ZeroAngle == 5        \* abs(angle) < 0.05, in hundredths
TurnAngle == 10       \* pre_avg > 0.1 or post_avg > 0.1, in hundredths
Neighbours == 5       \* range(max(0, sequence[0]-5), sequence[0])
DefaultMinBrightness == 20
DefaultMaxBrightness == 250

None == <<>>
Some(x) == <<x>>

Abs(x) == IF x < 0 THEN -x ELSE x
Max(a, b) == IF a > b THEN a ELSE b
Min(a, b) == IF a < b THEN a ELSE b

VARIABLES
    tub_exists,     \* os.path.exists(tub_path)
    catalog_files,  \* the catalog_*.catalog files in the order glob returns them,
                    \* each the sequence of its lines
    manifest,       \* None when manifest.json does not exist, else <<content>>
    images,         \* filename -> the image file as the three decoders see it
    runs_left,      \* audits still to be run in this behaviour
    last,           \* what the last call of clean_tub_data did
    prev            \* what the call before it did

vars == <<tub_exists, catalog_files, manifest, images, runs_left, last, prev>>

\* ---------------------------------------------------------- get_image_path
\* The path of an image file: the tub root first, then the images
\* subdirectory; None when it is in neither.
get_image_path(img_filename) ==
    IF images[img_filename].in_root THEN Some(<<"root", img_filename>>)
    ELSE IF images[img_filename].in_images THEN Some(<<"images", img_filename>>)
    ELSE None

\* ---------------------------------------------------------- is_valid_image
\* Image.open(...).verify() succeeds; any exception is caught and is False.
is_valid_image(img_path) ==
    IF img_path = None THEN FALSE
    ELSE images[img_path[1][2]].verifies

\* -------------------------------------------------------- check_brightness
\* <<valid, brightness>>.  cv2.imread returning None and an exception in
\* cvtColor/mean both give <<FALSE, 0>>.
check_brightness(img_path, min_brightness, max_brightness) ==
    IF img_path = None THEN <<FALSE, 0>>
    ELSE LET file == images[img_path[1][2]]
         IN  IF file.decode = "none" THEN <<FALSE, 0>>
             ELSE IF file.decode = "raise" THEN <<FALSE, 0>>
             ELSE IF file.mean < min_brightness \/ file.mean > max_brightness
                  THEN <<FALSE, file.mean>>
                  ELSE <<TRUE, file.mean>>

\* ------------------------------------------------ get_zero_angle_sequences
\* Whether a record extends the current run: angle present and abs < 0.05.
is_zero_angle(record) ==
    record.angle # None /\ Abs(record.angle[1]) < ZeroAngle

\* The loop of get_zero_angle_sequences from position index (0-based, as
\* enumerate gives it) with the runs closed so far and the open run.
RECURSIVE zero_scan(_, _, _, _)
zero_scan(records, index, zero_sequences, current_seq) ==
    IF index >= Len(records)
    THEN IF Len(current_seq) > 0
         THEN Append(zero_sequences, current_seq)
         ELSE zero_sequences
    ELSE IF is_zero_angle(records[index + 1])
         THEN zero_scan(records, index + 1, zero_sequences,
                        Append(current_seq, index))
         ELSE IF Len(current_seq) > 0
              THEN zero_scan(records, index + 1,
                             Append(zero_sequences, current_seq), <<>>)
              ELSE zero_scan(records, index + 1, zero_sequences, current_seq)

\* The scan without the close of the last open run (lines 91-92 dropped).
RECURSIVE zero_scan_no_tail(_, _, _, _)
zero_scan_no_tail(records, index, zero_sequences, current_seq) ==
    IF index >= Len(records)
    THEN zero_sequences
    ELSE IF is_zero_angle(records[index + 1])
         THEN zero_scan_no_tail(records, index + 1, zero_sequences,
                                Append(current_seq, index))
         ELSE IF Len(current_seq) > 0
              THEN zero_scan_no_tail(records, index + 1,
                                     Append(zero_sequences, current_seq), <<>>)
              ELSE zero_scan_no_tail(records, index + 1, zero_sequences,
                                     current_seq)

get_zero_angle_sequences_no_tail(records) ==
    zero_scan_no_tail(records, 0, <<>>, <<>>)

get_zero_angle_sequences(records) == zero_scan(records, 0, <<>>, <<>>)

\* ----------------------------------------------------------- manifest.json
\* The manifest text is a sequence of lines, a line a sequence of tokens.  A
\* token is either other text or one occurrence of the key "deleted_indexes":
\* followed by a bracketed list; spaced says that exactly one blank separates
\* the colon and the bracket, the only form the two regular expressions
\* '"deleted_indexes": \[(.*?)\]' match.
Text(id) == [key |-> FALSE, spaced |-> FALSE, items |-> <<>>, text |-> id]
Field(spaced, items) ==
    [key |-> TRUE, spaced |-> spaced, items |-> items, text |-> 0]

SeqToSet(s) == {s[i] : i \in 1..Len(s)}

\* sorted(list(S)) of a set of integers.
RECURSIVE Sorted(_)
Sorted(S) ==
    IF S = {} THEN <<>>
    ELSE LET m == CHOOSE x \in S : \A y \in S : x <= y
         IN  <<m>> \o Sorted(S \ {m})

\* Lines 115-126: the first line holding the key decides; in it the first
\* match of the regular expression, when its list is not empty, gives the set.
read_deleted_indexes(manifest_content) ==
    LET keyed == {n \in 1..Len(manifest_content) :
                    \E t \in 1..Len(manifest_content[n]) :
                        manifest_content[n][t].key}
    IN  IF keyed = {} THEN {}
        ELSE LET n == CHOOSE x \in keyed : \A y \in keyed : x <= y
                 line == manifest_content[n]
                 hits == {t \in 1..Len(line) : line[t].key /\ line[t].spaced}
             IN  IF hits = {} THEN {}
                 ELSE LET t == CHOOSE x \in hits : \A y \in hits : x <= y
                      IN  SeqToSet(line[t].items)

\* re.sub(pattern, replacement, manifest_content): every match of the
\* pattern, on any line, becomes the key followed by the given list.
re_sub(manifest_content, replacement) ==
    [n \in 1..Len(manifest_content) |->
        [t \in 1..Len(manifest_content[n]) |->
            IF manifest_content[n][t].key /\ manifest_content[n][t].spaced
            THEN Field(TRUE, replacement)
            ELSE manifest_content[n][t]]]

\* Lines 225-231 with the update of line 226 left out: only the newly found
\* indices are written.
new_manifest_content_only_new(manifest_content, deleted_indexes, problem_images) ==
    LET new_deleted == [k \in 1..Len(problem_images) |-> problem_images[k].index]
    IN  re_sub(manifest_content, Sorted(SeqToSet(new_deleted)))

\* Lines 225-231: the content written back when remove is set.
new_manifest_content(manifest_content, deleted_indexes, problem_images) ==
    LET new_deleted == [k \in 1..Len(problem_images) |-> problem_images[k].index]
        updated == deleted_indexes \cup SeqToSet(new_deleted)
    IN  re_sub(manifest_content, Sorted(updated))

\* ------------------------------------------------------- reading the catalogs
\* Lines 131-139: the lines of every catalog file, in glob's order, that
\* json.loads accepts.
RECURSIVE Flatten(_)
Flatten(files) ==
    IF files = <<>> THEN <<>> ELSE Head(files) \o Flatten(Tail(files))

read_records(files) == SelectSeq(Flatten(files), LAMBDA line : line.json)

\* ------------------------------------------------------------- Problem Entry
Problem(index, path, reason, brightness) ==
    [index |-> index, path |-> path, reason |-> reason, brightness |-> brightness]

problem_indexes(problem_images) ==
    {problem_images[k].index : k \in 1..Len(problem_images)}

\* -------------------------------------------------- the per-record pass
\* Lines 146-175 without the test of line 150.
RECURSIVE check_images_no_skip(_, _, _, _, _, _)
check_images_no_skip(all_records, i, deleted_indexes, min_brightness, max_brightness, problem_images) ==
    IF i > Len(all_records) THEN problem_images
    ELSE LET record == all_records[i]
             index == record._index
             go(p) == check_images_no_skip(all_records, i + 1, deleted_indexes,
                                           min_brightness, max_brightness, p)
         IN  IF record.cam = None THEN go(problem_images)
             ELSE LET img_filename == record.cam[1]
                      img_path == get_image_path(img_filename)
                  IN  IF img_path = None
                      THEN go(Append(problem_images,
                              Problem(index, <<"root", img_filename>>,
                                      "missing file", 0)))
                      ELSE IF ~is_valid_image(img_path)
                      THEN go(Append(problem_images,
                              Problem(index, img_path[1], "invalid image", 0)))
                      ELSE LET b == check_brightness(img_path, min_brightness,
                                                     max_brightness)
                           IN  IF ~b[1]
                               THEN go(Append(problem_images,
                                       Problem(index, img_path[1],
                                               "brightness", b[2])))
                               ELSE go(problem_images)

\* Lines 146-175: the loop over all_records from the i-th record on.
RECURSIVE check_images(_, _, _, _, _, _)
check_images(all_records, i, deleted_indexes, min_brightness, max_brightness, problem_images) ==
    IF i > Len(all_records) THEN problem_images
    ELSE LET record == all_records[i]
             index == record._index
             go(p) == check_images(all_records, i + 1, deleted_indexes,
                                   min_brightness, max_brightness, p)
         IN  IF index \in deleted_indexes THEN go(problem_images)
             ELSE IF record.cam = None THEN go(problem_images)
             ELSE LET img_filename == record.cam[1]
                      img_path == get_image_path(img_filename)
                  IN  IF img_path = None
                      THEN go(Append(problem_images,
                              Problem(index, <<"root", img_filename>>,
                                      "missing file", 0)))
                      ELSE IF ~is_valid_image(img_path)
                      THEN go(Append(problem_images,
                              Problem(index, img_path[1], "invalid image", 0)))
                      ELSE LET b == check_brightness(img_path, min_brightness,
                                                     max_brightness)
                           IN  IF ~b[1]
                               THEN go(Append(problem_images,
                                       Problem(index, img_path[1],
                                               "brightness", b[2])))
                               ELSE go(problem_images)

\* ------------------------------------------------ the zero-angle run pass
RECURSIVE Sum(_)
Sum(s) == IF s = <<>> THEN 0 ELSE Head(s) + Sum(Tail(s))

\* The two loops of lines 186-196: abs(angle) of the records at the 0-based
\* positions i, i+1, ..., stop-1 that lie in the list and have an angle.
RECURSIVE abs_angles(_, _, _)
abs_angles(all_records, i, stop) ==
    IF i >= stop THEN <<>>
    ELSE IF i < Len(all_records) /\ all_records[i + 1].angle # None
         THEN <<Abs(all_records[i + 1].angle[1])>>
                  \o abs_angles(all_records, i + 1, stop)
         ELSE abs_angles(all_records, i + 1, stop)

pre_seq_angles(all_records, sequence) ==
    abs_angles(all_records, Max(0, sequence[1] - Neighbours), sequence[1])

post_seq_angles(all_records, sequence) ==
    abs_angles(all_records, sequence[Len(sequence)] + 1,
               Min(Len(all_records), sequence[Len(sequence)] + Neighbours + 1))

\* The mean with >= in place of >.
is_turn_ge(angles) ==
    IF angles # <<>> THEN Sum(angles) >= TurnAngle * Len(angles) ELSE 0 >= TurnAngle

\* Lines 199-203 for one side: avg = sum/len if the list is not empty, else 0;
\* avg > 0.1.  sum/len > 0.1 is compared as sum > 0.1 * len.
is_turn(angles) ==
    IF angles # <<>> THEN Sum(angles) > TurnAngle * Len(angles) ELSE 0 > TurnAngle

\* Lines 207-215 without the test against the entries already made.
RECURSIVE mark_sequence_no_dedup(_, _, _, _, _)
mark_sequence_no_dedup(all_records, sequence, k, deleted_indexes, problem_images) ==
    IF k > Len(sequence) THEN problem_images
    ELSE LET record == all_records[sequence[k] + 1]
             rec_idx == record._index
             go(p) == mark_sequence_no_dedup(all_records, sequence, k + 1,
                                             deleted_indexes, p)
         IN  IF rec_idx \notin deleted_indexes
                /\ record.cam # None
                /\ get_image_path(record.cam[1]) # None
             THEN go(Append(problem_images,
                     Problem(rec_idx, get_image_path(record.cam[1])[1],
                             "zero-angle run", 0)))
             ELSE go(problem_images)

\* Lines 207-215: the records of one run, from its k-th position on.
RECURSIVE mark_sequence(_, _, _, _, _)
mark_sequence(all_records, sequence, k, deleted_indexes, problem_images) ==
    IF k > Len(sequence) THEN problem_images
    ELSE LET record == all_records[sequence[k] + 1]
             rec_idx == record._index
             go(p) == mark_sequence(all_records, sequence, k + 1,
                                    deleted_indexes, p)
         IN  IF rec_idx \notin deleted_indexes
                /\ rec_idx \notin problem_indexes(problem_images)
                /\ record.cam # None
                /\ get_image_path(record.cam[1]) # None
             THEN go(Append(problem_images,
                     Problem(rec_idx, get_image_path(record.cam[1])[1],
                             "zero-angle run", 0)))
             ELSE go(problem_images)

\* Lines 179-215: the loop over zero_sequences from the s-th run on.
RECURSIVE check_sequences(_, _, _, _, _, _)
check_sequences(all_records, zero_sequences, s, deleted_indexes, max_zero_angle_count, problem_images) ==
    IF s > Len(zero_sequences) THEN problem_images
    ELSE LET sequence == zero_sequences[s]
             go(p) == check_sequences(all_records, zero_sequences, s + 1,
                                      deleted_indexes, max_zero_angle_count, p)
         IN  IF Len(sequence) > max_zero_angle_count
             THEN IF is_turn(pre_seq_angles(all_records, sequence))
                     \/ is_turn(post_seq_angles(all_records, sequence))
                  THEN go(problem_images)
                  ELSE go(mark_sequence(all_records, sequence, 1,
                                        deleted_indexes, problem_images))
             ELSE go(problem_images)

\* ------------------------------------------------------------ clean_tub_data
\* The record of one call: how it ended and what it computed on the way.
Audit(outcome, remove, max_zero_angle_count, deleted_indexes, all_records, image_problems, zero_sequences, problem_images) ==
    [outcome |-> outcome, remove |-> remove,
     max_zero_angle_count |-> max_zero_angle_count,
     manifest_before |-> manifest,
     deleted_indexes |-> deleted_indexes, all_records |-> all_records,
     image_problems |-> image_problems, zero_sequences |-> zero_sequences,
     problem_images |-> problem_images]

Stopped(outcome, remove, max_zero_angle_count) ==
    Audit(outcome, remove, max_zero_angle_count, {}, <<>>, <<>>, <<>>, <<>>)

\* Whether lines 223-235 write the manifest, with "if remove:" left out.
writes_manifest_always(remove, problem_images) == problem_images # <<>>

\* Whether lines 218-235 write the manifest.
writes_manifest(remove, problem_images) == problem_images # <<>> /\ remove

clean_tub_data(remove, max_brightness, min_brightness, max_zero_angle_count) ==
    /\ runs_left > 0
    /\ runs_left' = runs_left - 1
    /\ prev' = last
    /\ UNCHANGED <<tub_exists, catalog_files, images>>
    /\ IF ~tub_exists
       THEN /\ last' = Stopped("StoreNotFound", remove, max_zero_angle_count)
            /\ UNCHANGED manifest
       ELSE IF catalog_files = <<>>
       THEN /\ last' = Stopped("CatalogMissing", remove, max_zero_angle_count)
            /\ UNCHANGED manifest
       ELSE IF manifest = None
       THEN /\ last' = Stopped("ManifestMissing", remove, max_zero_angle_count)
            /\ UNCHANGED manifest
       ELSE LET manifest_content == manifest[1]
                deleted_indexes == read_deleted_indexes(manifest_content)
                all_records == read_records(catalog_files)
                image_problems ==
                    check_images(all_records, 1, deleted_indexes,
                                 min_brightness, max_brightness, <<>>)
                zero_sequences == get_zero_angle_sequences(all_records)
                problem_images ==
                    check_sequences(all_records, zero_sequences, 1,
                                    deleted_indexes, max_zero_angle_count,
                                    image_problems)
            IN  /\ last' = Audit("done", remove, max_zero_angle_count,
                                 deleted_indexes, all_records, image_problems,
                                 zero_sequences, problem_images)
                /\ manifest' =
                     IF writes_manifest(remove, problem_images)
                     THEN Some(new_manifest_content(manifest_content,
                                                    deleted_indexes,
                                                    problem_images))
                     ELSE manifest

\* The thresholds an audit is run with.
ZeroCountChoices == {0, 1}

Next ==
    \E remove \in BOOLEAN, max_zero_angle_count \in ZeroCountChoices :
        clean_tub_data(remove, DefaultMaxBrightness, DefaultMinBrightness,
                       max_zero_angle_count)

\* ------------------------------------------------------------ initial stores
\* One line of a catalog file: a record (json.loads succeeds) or a line
\* json.loads rejects.
Line(index, angle, cam) ==
    [json |-> TRUE, _index |-> index, angle |-> angle, cam |-> cam]
BadLine == [json |-> FALSE, _index |-> 0, angle |-> None, cam |-> None]

\* An image file as the code sees it: where os.path.exists finds it, whether
\* PIL's verify accepts it, what cv2.imread/cvtColor do with it ("ok", "none"
\* for a None result, "raise" for an exception) and the mean of its grey values.
File(in_root, in_images, verifies, decode, mean) ==
    [in_root |-> in_root, in_images |-> in_images, verifies |-> verifies,
     decode |-> decode, mean |-> mean]
GoodFile == File(TRUE, FALSE, TRUE, "ok", 128)
DarkFile == File(FALSE, TRUE, TRUE, "ok", 10)
NoFile == File(FALSE, FALSE, FALSE, "none", 0)

\* A manifest as donkeycar writes it: a line of other content, then the line
\* of the catalog manifest with the deleted_indexes field inside.
ManifestWith(field) == Some(<< <<Text(1)>>, <<Text(2), field, Text(3)>> >>)
ManifestWithout == Some(<< <<Text(1)>>, <<Text(2), Text(3)>> >>)

\* The records 0..n-1 in capture order; record i refers to the image file
\* named i unless its kind is "noref".  The file is good (in the tub root),
\* dark (in the images subdirectory, mean below min_brightness) or missing.
Lines(n, angle, kind) ==
    [i \in 1..n |-> Line(i - 1, angle[i],
                         IF kind[i] = "noref" THEN None ELSE Some(i - 1))]
Files(n, kind) ==
    [f \in 0..(n - 1) |-> IF kind[f + 1] = "good" THEN GoodFile
                          ELSE IF kind[f + 1] = "dark" THEN DarkFile
                          ELSE NoFile]

\* How the lines lie in catalog files and in which order glob lists the
\* files: one file; two files in either order; one file with a line that
\* does not parse after its first line.
Layouts(lines) ==
    {<<lines>>}
    \cup {<<SubSeq(lines, 1, c), SubSeq(lines, c + 1, Len(lines))>> :
            c \in 1..(Len(lines) - 1)}
    \cup {<<SubSeq(lines, c + 1, Len(lines)), SubSeq(lines, 1, c)>> :
            c \in 1..(Len(lines) - 1)}
    \cup {<<(<<lines[1], BadLine>> \o Tail(lines))>>}

Store(exists, files, man, imgs) ==
    [tub_exists |-> exists, catalog_files |-> files, manifest |-> man,
     images |-> imgs]

MainAngles == {Some(4), Some(5)}
MainKinds == {"noref", "missing", "dark", "good"}

\* The deleted_indexes lists of the initial manifests: empty, one index, and
\* the last and the first index in this (descending) order.
DeletedLists(n) ==
    {<<>>} \cup {<<i>> : i \in 0..(n - 1)}
    \cup (IF n > 1 THEN {<<n - 1, 0>>} ELSE {})

Manifests(n) ==
    {ManifestWith(Field(TRUE, d)) : d \in DeletedLists(n)}
    \cup {ManifestWith(Field(FALSE, <<0>>)), ManifestWithout}

\* A store that loads: catalogs and a manifest are there.
LoadableStore(n, angle, kind, files, man) ==
    Store(TRUE, files, man, Files(n, kind))

\* Stores on which clean_tub_data returns early: no tub directory, no catalog
\* file, no manifest.json.
BrokenStores ==
    {Store(FALSE, <<>>, None, Files(0, <<>>)),
     Store(TRUE, <<>>, ManifestWith(Field(TRUE, <<>>)), Files(0, <<>>)),
     Store(TRUE, <<>>, None, Files(0, <<>>))}
    \cup {Store(TRUE, <<Lines(2, angle, kind)>>, None, Files(2, kind)) :
            angle \in [1..2 -> MainAngles], kind \in [1..2 -> MainKinds]}

NoAudit == Stopped("none", FALSE, 0)

Start(store, runs) ==
    /\ tub_exists = store.tub_exists
    /\ catalog_files = store.catalog_files
    /\ manifest = store.manifest
    /\ images = store.images
    /\ runs_left = runs
    /\ last = [NoAudit EXCEPT !.manifest_before = store.manifest]
    /\ prev = [NoAudit EXCEPT !.manifest_before = store.manifest]

Init ==
    \/ \E store \in BrokenStores : Start(store, MaxAudits)
    \/ \E n \in 1..MaxRecords :
         \E angle \in [1..n -> MainAngles], kind \in [1..n -> MainKinds] :
           \E files \in Layouts(Lines(n, angle, kind)), man \in Manifests(n) :
             Start(LoadableStore(n, angle, kind, files, man), MaxAudits)

Spec == Init /\ [][Next]_vars

\* ---------------------------------------- stores for the zero-angle run pass
\* Longer stores, audited once: every record has a good image, except that
\* the first or the last record (special, 0 for neither) may lack its image
\* reference, lack its image file, or be in deleted_indexes already.
SeqAngles == {None, Some(4), Some(-16)}
SeqKinds == {"noref", "missing", "deleted"}

SeqStore(n, angle, special, skind) ==
    LET kind == [i \in 1..n |-> IF i = special /\ skind # "deleted"
                                THEN skind ELSE "good"]
        deleted == IF special > 0 /\ skind = "deleted"
                   THEN <<special - 1>> ELSE <<>>
    IN  Store(TRUE, <<Lines(n, angle, kind)>>,
              ManifestWith(Field(TRUE, deleted)), Files(n, kind))

InitSeq ==
    \E n \in 1..MaxSeqRecords :
      \E angle \in [1..n -> SeqAngles], special \in {0, 1, n}, skind \in SeqKinds :
        /\ special = 0 => skind = "noref"
        /\ Start(SeqStore(n, angle, special, skind), 1)

SpecSeq == InitSeq /\ [][Next]_vars

\* ------------------------------------------- stores for the run detection
\* Stores of good images whose angles lie on both sides of the 0.05 limit.
RunAngles == {None, Some(4), Some(-4), Some(5), Some(-5)}

RunStore(n, angle) ==
    Store(TRUE, <<Lines(n, angle, [i \in 1..n |-> "good"])>>,
          ManifestWith(Field(TRUE, <<>>)), Files(n, [i \in 1..n |-> "good"]))

InitRuns ==
    \E n \in 1..MaxRunRecords :
      \E angle \in [1..n -> RunAngles] : Start(RunStore(n, angle), 1)

SpecRuns == InitRuns /\ [][Next]_vars

\* --------------------------------------------- stores for the image checks
\* One record whose image file is any combination of: found in the root, in
\* the images subdirectory or nowhere; accepted by verify or not; decoded,
\* not decoded or raising in the brightness stage; of a mean on or next to
\* the two default limits.
FrameMeans ==
    {0, DefaultMinBrightness - 1, DefaultMinBrightness,
     DefaultMaxBrightness, DefaultMaxBrightness + 1}

FrameStores ==
    {Store(TRUE, <<Lines(1, <<Some(50)>>, <<"good">>)>>,
           ManifestWith(Field(TRUE, <<>>)),
           [f \in {0} |-> File(in_root, in_images, verifies, decode, mean)]) :
        in_root \in BOOLEAN, in_images \in BOOLEAN, verifies \in BOOLEAN,
        decode \in {"ok", "none", "raise"}, mean \in FrameMeans}

InitFrame == \E store \in FrameStores : Start(store, 1)

SpecFrame == InitFrame /\ [][Next]_vars

\* ================================================================== claims
Done == last.outcome = "done"
Fatal == {"StoreNotFound", "CatalogMissing", "ManifestMissing"}

\* The indices held by the deleted_indexes field of a manifest file, in
\* whatever form the field is written; none when there is no file or no field.
FieldItems(man) ==
    IF man = None THEN {}
    ELSE UNION {UNION {SeqToSet(man[1][n][t].items) : t \in 1..Len(man[1][n])} :
                  n \in 1..Len(man[1])}

\* The manifest text with the list of every deleted_indexes field blanked.
OutsideField(content) ==
    [n \in 1..Len(content) |->
        [t \in 1..Len(content[n]) |->
            IF content[n][t].key THEN [content[n][t] EXCEPT !.items = <<>>]
            ELSE content[n][t]]]

ZeroFlagged(problem_images, index) ==
    \E k \in 1..Len(problem_images) :
        /\ problem_images[k].index = index
        /\ problem_images[k].reason = "zero-angle run"

\* A record counts as zero-angle: its angle is present and |angle| < 0.05.
Qualifies(record) ==
    record.angle # None /\ -ZeroAngle < record.angle[1] /\ record.angle[1] < ZeroAngle

\* Positions a..b (1-based) of recs are a maximal run of zero-angle records.
IsRun(recs, a, b) ==
    /\ a <= b
    /\ \A p \in a..b : Qualifies(recs[p])
    /\ a = 1 \/ ~Qualifies(recs[a - 1])
    /\ b = Len(recs) \/ ~Qualifies(recs[b + 1])

RECURSIVE SumAbs(_, _)
SumAbs(recs, P) ==
    IF P = {} THEN 0
    ELSE LET p == CHOOSE x \in P : TRUE
         IN  Abs(recs[p].angle[1]) + SumAbs(recs, P \ {p})

\* The mean |angle| over the records at positions P that have an angle is at
\* most 0.1; 0 when none has one.
MeanAtMostTurn(recs, P) ==
    LET present == {p \in P : recs[p].angle # None}
    IN  present = {} \/ SumAbs(recs, present) <= TurnAngle * Cardinality(present)

MeanIsTurn(recs, P) ==
    LET present == {p \in P : recs[p].angle # None}
    IN  present # {} /\ SumAbs(recs, present) = TurnAngle * Cardinality(present)

Before(recs, a) == Max(1, a - Neighbours)..(a - 1)
After(recs, b) == (b + 1)..Min(Len(recs), b + Neighbours)

\* The run a..b is longer than the threshold and neither side is a turn.
FlaggableRun(recs, a, b) ==
    /\ IsRun(recs, a, b)
    /\ b - a + 1 > last.max_zero_angle_count
    /\ MeanAtMostTurn(recs, Before(recs, a))
    /\ MeanAtMostTurn(recs, After(recs, b))

\* ---------------------------------------------------------------------- C1
\* C1: two audits in succession with remove set and the same thresholds, on a
\* store nothing else touched in between: the indices held by the manifest's
\* deleted_indexes field after the second audit are those held after the first.
C1_SecondRemoveChangesNothing ==
    (/\ prev.outcome = "done" /\ prev.remove
     /\ last.outcome = "done" /\ last.remove
     /\ prev.max_zero_angle_count = last.max_zero_angle_count)
    => FieldItems(manifest) = FieldItems(last.manifest_before)

\* Two such audits, the first of which added indices to a list that was not
\* empty before.
C1_Witness ==
    /\ prev.outcome = "done" /\ prev.remove
    /\ last.outcome = "done" /\ last.remove
    /\ prev.max_zero_angle_count = last.max_zero_angle_count
    /\ prev.deleted_indexes # {}
    /\ prev.problem_images # <<>>
    /\ FieldItems(last.manifest_before) # FieldItems(prev.manifest_before)

\* ---------------------------------------------------------------------- C2
\* C2: after an audit with remove set, loading the manifest again gives the
\* deletion index loaded before united with the indices of the problems
\* found, and the text outside the deleted_indexes field is as before.
C2_CommitThenLoad ==
    (Done /\ last.remove)
    => /\ read_deleted_indexes(manifest[1])
            = last.deleted_indexes \cup problem_indexes(last.problem_images)
       /\ OutsideField(manifest[1]) = OutsideField(last.manifest_before[1])

\* ---------------------------------------------------------------------- C3
\* C3: whatever the audit (remove or not, any threshold), the indices held by
\* the manifest's deleted_indexes field after it include those held before it.
C3_NeverShrinks == FieldItems(last.manifest_before) \subseteq FieldItems(manifest)

\* An audit that added indices to a list that was not empty.
C3_Witness ==
    /\ Done
    /\ FieldItems(last.manifest_before) # {}
    /\ FieldItems(manifest) # FieldItems(last.manifest_before)

\* ---------------------------------------------------------------------- C4
\* C4: no Problem Entry of an audit, from either pass, carries an index of the
\* deletion index loaded at its start.
C4_DeletedNotReported ==
    Done => \A k \in 1..Len(last.problem_images) :
                last.problem_images[k].index \notin last.deleted_indexes

\* A deleted record whose image file is missing lies in a run that was
\* flagged for another record.
C4_Witness ==
    /\ Done
    /\ \E s \in 1..Len(last.zero_sequences) :
        LET sequence == last.zero_sequences[s]
        IN  /\ \E k \in 1..Len(sequence) :
                 LET record == last.all_records[sequence[k] + 1]
                 IN  /\ record._index \in last.deleted_indexes
                     /\ record.cam # None
                     /\ get_image_path(record.cam[1]) = None
            /\ \E k \in 1..Len(sequence) :
                 ZeroFlagged(last.problem_images,
                             last.all_records[sequence[k] + 1]._index)

\* ---------------------------------------------------------------------- C5
\* The index of the record at position p is free to be flagged by the
\* zero-angle pass: not deleted, not flagged by the image pass.
Unclaimed(recs, p) ==
    /\ recs[p]._index \notin last.deleted_indexes
    /\ recs[p]._index \notin problem_indexes(last.image_problems)

C6_WritesOnlyOnRemove ==
    [][/\ tub_exists' = tub_exists
       /\ catalog_files' = catalog_files
       /\ images' = images
       /\ manifest' # manifest => (last'.remove /\ last'.outcome = "done")
       /\ last'.outcome \in Fatal =>
            /\ manifest' = manifest
            /\ last'.all_records = <<>>
            /\ last'.image_problems = <<>>
            /\ last'.zero_sequences = <<>>
            /\ last'.problem_images = <<>>]_vars

\* A dry run that found problems and left the manifest as it was.
C6_Witness ==
    /\ Done /\ ~last.remove
    /\ last.problem_images # <<>>
    /\ manifest = last.manifest_before

\* ---------------------------------------------------------------------- C7
\* C7: the record list the two passes work on is sorted by record index.
C7_RecordsSortedByIndex ==
    Done => \A i \in 1..Len(last.all_records), j \in 1..Len(last.all_records) :
                i < j => last.all_records[i]._index < last.all_records[j]._index

\* ---------------------------------------------------------------------- C8
\* C8: an image that exists and passes verify but fails to decode in the
\* brightness stage is reported as an invalid image; a brightness entry
\* carries a mean computed on a decoded image that lies below min_brightness
\* or above max_brightness.
C8_DecodeFailureIsInvalidImage ==
    Done => \A k \in 1..Len(last.image_problems) :
              LET entry == last.image_problems[k]
                  file == images[entry.path[2]]
              IN  /\ ((file.in_root \/ file.in_images) /\ file.verifies
                        /\ file.decode # "ok")
                       => entry.reason = "invalid image"
                  /\ entry.reason = "brightness"
                       => /\ file.decode = "ok"
                          /\ entry.brightness = file.mean
                          /\ \/ file.mean < DefaultMinBrightness
                             \/ file.mean > DefaultMaxBrightness

\* ---------------------------------------------------------------------- C9
\* C9: with unique record indices the problem list holds at most one entry
\* per index, the entries of the image pass stand first and unchanged, and
\* every later entry is a zero-angle run entry for an index the image pass
\* did not flag.
C9_OneEntryPerIndexFirstWins ==
    Done =>
      LET ps == last.problem_images
          first == last.image_problems
      IN  /\ \A j \in 1..Len(ps), k \in 1..Len(ps) :
                j # k => ps[j].index # ps[k].index
          /\ Len(first) <= Len(ps)
          /\ \A k \in 1..Len(first) :
                ps[k] = first[k] /\ ps[k].reason # "zero-angle run"
          /\ \A k \in (Len(first) + 1)..Len(ps) :
                /\ ps[k].reason = "zero-angle run"
                /\ ps[k].index \notin problem_indexes(first)

\* A flagged run one of whose records the image pass had flagged already
\* for its brightness, so that its image file is there.
C9_Witness ==
    /\ Done
    /\ \E s \in 1..Len(last.zero_sequences) :
        LET sequence == last.zero_sequences[s]
        IN  /\ \E k \in 1..Len(sequence), j \in 1..Len(last.image_problems) :
                 /\ last.all_records[sequence[k] + 1]._index
                        = last.image_problems[j].index
                 /\ last.image_problems[j].reason = "brightness"
            /\ \E k \in 1..Len(sequence) :
                 ZeroFlagged(last.problem_images,
                             last.all_records[sequence[k] + 1]._index)

\* --------------------------------------------------------------------- C10
\* The 0-based positions that some run lists, with the place they are listed.
Listed(zs, pos) ==
    UNION {{<<s, k>> : k \in {x \in 1..Len(zs[s]) : zs[s][x] = pos}} :
             s \in 1..Len(zs)}

\* C10: the runs returned are the maximal runs of zero-angle records: each is
\* not empty and lists consecutive positions in ascending order; successive
\* runs are in scan order with at least one position between them; a position
\* is listed exactly once if its record is zero-angle and never otherwise.
C10_RunsAreMaximal ==
    Done =>
      LET zs == last.zero_sequences
          recs == last.all_records
      IN  /\ \A s \in 1..Len(zs) :
                /\ Len(zs[s]) > 0
                /\ \A k \in 1..Len(zs[s]) : zs[s][k] \in 0..(Len(recs) - 1)
                /\ \A k \in 1..(Len(zs[s]) - 1) : zs[s][k + 1] = zs[s][k] + 1
          /\ \A s \in 1..(Len(zs) - 1) :
                /\ zs[s][Len(zs[s])] + 1 < zs[s + 1][1]
                /\ \E q \in (zs[s][Len(zs[s])] + 1)..(zs[s + 1][1] - 1) :
                       ~Qualifies(recs[q + 1])
          /\ \A pos \in 0..(Len(recs) - 1) :
                Cardinality(Listed(zs, pos))
                    = IF Qualifies(recs[pos + 1]) THEN 1 ELSE 0

\* Two runs, the first closed by a record of |angle| exactly 0.05, the second
\* one longer than a single record and reaching the end of the list.
C10_Witness ==
    /\ Done
    /\ Len(last.zero_sequences) = 2
    /\ LET zs == last.zero_sequences
           recs == last.all_records
       IN  /\ recs[zs[1][Len(zs[1])] + 2].angle = Some(ZeroAngle)
           /\ Len(zs[2]) > 1
           /\ zs[2][Len(zs[2])] = Len(recs) - 1

====
